---------------------------- MODULE Spec2Model ----------------------------
(***************************************************************************)
(* A model of the question-answering passage retriever of                  *)
(* src/model/Q&A/retrieval.py (SparseRetrieval, ElasticRetrieval) and of   *)
(* the document-store glue of src/model/Q&A/elasticsearch.py.              *)
(*                                                                         *)
(* Texts are sequences of word tokens.  TF-IDF weights and relevance       *)
(* scores are fixed-point numbers with six decimals.  numpy arrays are     *)
(* sequences; document indices are 0-based as in numpy.                    *)
(***************************************************************************)
EXTENDS Integers, Sequences, FiniteSets, TLC

VARIABLES
    contexts,      \* SparseRetrieval.contexts: the deduplicated corpus
    tfidfv,        \* SparseRetrieval.tfidfv: the vectorizer (vocabulary, or unfitted)
    p_embedding,   \* SparseRetrieval.p_embedding: one vector per document, or None
    sort_build,    \* how this numpy build orders equal keys in np.argsort
    vcall,         \* the last call made on the SparseRetrieval and its outcome
    emd_file,      \* the file sparse_embedding.bin under data_path, or Absent
    tfidfv_file,   \* the file tfidv.bin under data_path, or Absent
    ccall,         \* the last operation on the embedding cache and what it printed
    wiki,          \* the raw texts of the dataset file, in file order
    lcall,         \* the last call of a corpus loader and what it returned
    es_exists,     \* whether the index exists in the document store
    es_docs,       \* the documents of the index, oldest write first
    ecall          \* the last call made against the document store and its outcome

vecVars == <<contexts, tfidfv, p_embedding, sort_build, vcall>>
cacheVars == <<emd_file, tfidfv_file, ccall>>

loadVars == <<wiki, lcall>>

esVars == <<es_exists, es_docs, ecall>>

vars == <<vecVars, cacheVars, loadVars, esVars>>

\* p_embedding before get_sparse_embedding: Python's None (no rows)
None == <<>>
\* a TfidfVectorizer that was never fitted: no vocabulary, no idf
Unfitted == [g \in {} |-> 0]
\* a path at which os.path.isfile is False
Absent == [isfile |-> FALSE]
NoCall == [op |-> "none"]

\* a machine at rest: no dataset read, no index in the store
LoadIdle == wiki = <<>> /\ lcall = NoCall
EsIdle == es_exists = FALSE /\ es_docs = <<>> /\ ecall = NoCall

(***************************************************************************)
(* Bounds of the model.                                                    *)
(***************************************************************************)
MaxDocs == 3       \* documents in a corpus
MaxQueries == 2    \* queries in one bulk call
MaxCacheDocs == 1  \* documents in a corpus of the embedding-cache machine
MaxRawDocs == 2    \* entries of a dataset file given to a corpus loader
MaxRawLen == 2     \* characters of a raw text given to a corpus loader
MaxBatch == 2      \* documents in one bulk load
MaxStoreDocs == 3  \* a bulk load starts only while the index holds fewer documents

\* the k / topk argument: below, at and above the corpus size
KRange == 1..(MaxDocs + 1)

Min(a, b) == IF a <= b THEN a ELSE b

RECURSIVE SumSeq(_)
SumSeq(s) == IF s = <<>> THEN 0 ELSE Head(s) + SumSeq(Tail(s))

RECURSIVE SumOver(_, _)
\* the sum of f[x] over the finite set S
SumOver(S, f) ==
    IF S = {} THEN 0
    ELSE LET x == CHOOSE y \in S : TRUE IN f[x] + SumOver(S \ {x}, f)

Range(s) == {s[i] : i \in DOMAIN s}

Reverse(s) == [i \in 1..Len(s) |-> s[Len(s) + 1 - i]]

\* Python's s[:k] for k >= 0
Take(s, k) == SubSeq(s, 1, Min(k, Len(s)))

(***************************************************************************)
(* The document and query universes the model draws its inputs from.       *)
(***************************************************************************)
Texts ==
    { <<"apple", "banana">>, <<"banana", "cherry">>,
      <<"apple", "cherry">>, <<"cherry">> }

Queries == { <<"apple", "banana">>, <<"zzz">> }

\* sequences of pairwise different elements of S, of length lo..hi
DistinctSeqs(S, lo, hi) ==
    UNION { { s \in [1..n -> S] : \A i, j \in 1..n : i # j => s[i] # s[j] }
            : n \in lo..hi }

Corpora == DistinctSeqs(Texts, 1, MaxDocs)

QueryLists == UNION { [1..n -> Queries] : n \in 1..MaxQueries }

(***************************************************************************)
(* Fixed-point reals.  The weights and the scores of the program are       *)
(* floats; the model writes a real x >= 0 as the integer nearest to        *)
(* x * One, and multiplies and divides in pieces so that no intermediate   *)
(* value leaves the 32-bit integers.  Results agree with the real value to *)
(* a few units of the sixth decimal.                                       *)
(***************************************************************************)
One == 1000000

\* ln(1), ln(2), ..., ln(12)
LnInt ==
    << 0, 693147, 1098612, 1386294, 1609438, 1791759,
       1945910, 2079442, 2197225, 2302585, 2397895, 2484907 >>

\* ln(p / q) for integers 1 <= q <= p <= 12
Ln(p, q) == LnInt[p] - LnInt[q]

\* a * b
FxMul(a, b) ==
    LET ah == a \div 1000
        al == a % 1000
        bh == b \div 1000
        bl == b % 1000
    IN  ah * bh + (ah * bl + al * bh + (al * bl + 500) \div 1000 + 500) \div 1000

RECURSIVE FxDivDigits(_, _, _, _)
\* long division: n more decimal digits of r / b appended to q, rounded
FxDivDigits(q, r, b, n) ==
    IF n = 0 THEN (IF 2 * r >= b THEN q + 1 ELSE q)
    ELSE FxDivDigits(q * 10 + (r * 10) \div b, (r * 10) % b, b, n - 1)

\* a / b, for b > 0
FxDiv(a, b) == FxDivDigits(a \div b, a % b, b, 6)

RECURSIVE ISqrtBetween(_, _, _)
\* the integer square root of x, known to lie in lo..(hi - 1)
ISqrtBetween(x, lo, hi) ==
    IF hi - lo <= 1 THEN lo
    ELSE LET mid == (lo + hi) \div 2
         IN  IF mid * mid <= x THEN ISqrtBetween(x, mid, hi)
             ELSE ISqrtBetween(x, lo, mid)

\* sqrt(x): the integer root gives three digits, two Newton steps the rest
FxSqrt(x) ==
    IF x = 0 THEN 0
    ELSE LET r0 == ISqrtBetween(x, 0, 46341) * 1000
             r1 == (r0 + FxDiv(x, r0)) \div 2
         IN  (r1 + FxDiv(x, r1) + 1) \div 2

(***************************************************************************)
(* TfidfVectorizer(ngram_range=(1, 2)) with its defaults (use_idf,         *)
(* smooth_idf, norm="l2"): fit, transform, fit_transform.  A fitted        *)
(* vectorizer is the function from its vocabulary to the idf weights.      *)
(***************************************************************************)
\* the unigrams and bigrams of a text
NGrams(text) ==
    { <<text[i]>> : i \in 1..Len(text) }
        \cup { <<text[i], text[i + 1]>> : i \in 1..(Len(text) - 1) }

\* how many times n-gram g occurs in text
Count(g, text) ==
    Cardinality({ i \in 1..(Len(text) - Len(g) + 1) :
                    SubSeq(text, i, i + Len(g) - 1) = g })

\* the number of documents of the corpus that contain g
DocFreq(g, corpus) ==
    Cardinality({ i \in 1..Len(corpus) : Count(g, corpus[i]) > 0 })

\* smooth idf: ln((1 + n) / (1 + df)) + 1
Idf(n, df) == Ln(1 + n, 1 + df) + One

\* fit: the vocabulary learned from the corpus, each n-gram with its idf
Fit(corpus) ==
    [g \in UNION { NGrams(corpus[i]) : i \in 1..Len(corpus) } |->
        Idf(Len(corpus), DocFreq(g, corpus))]

\* the vocabulary of a fitted vectorizer
Vocabulary(vocab) == DOMAIN vocab

\* transform of one text: term count times idf, the row scaled to unit
\* L2 norm; out-of-vocabulary n-grams contribute nothing, and a row of
\* zeros stays a row of zeros
TransformOne(vocab, text) ==
    LET raw == [g \in Vocabulary(vocab) |-> Count(g, text) * vocab[g]]
        norm == FxSqrt(SumOver(Vocabulary(vocab),
                               [g \in Vocabulary(vocab) |-> FxMul(raw[g], raw[g])]))
    IN  [g \in Vocabulary(vocab) |->
            IF raw[g] = 0 THEN 0 ELSE FxDiv(raw[g], norm)]

\* transform of a list of texts: one row per text
Transform(vocab, texts) ==
    [i \in 1..Len(texts) |-> TransformOne(vocab, texts[i])]

FitTransform(corpus) == Transform(Fit(corpus), corpus)

\* np.sum of a matrix given as a sequence of rows over the vocabulary
NpSum(vocab, rows) ==
    SumSeq([i \in 1..Len(rows) |-> SumOver(Vocabulary(vocab), rows[i])])

\* the dot product of two rows over the vocabulary
Dot(vocab, q, d) ==
    SumOver(Vocabulary(vocab), [g \in Vocabulary(vocab) |-> FxMul(q[g], d[g])])

RECURSIVE DotRow(_, _, _, _)
\* the dot products of q with the first n rows of drows
DotRow(vocab, q, drows, n) ==
    IF n = 0 THEN <<>>
    ELSE Append(DotRow(vocab, q, drows, n - 1), Dot(vocab, q, drows[n]))

\* query_vec * p_embedding.T: row i, column d is the dot product
MatMulT(vocab, qrows, drows) ==
    [i \in 1..Len(qrows) |-> DotRow(vocab, qrows[i], drows, Len(drows))]

(***************************************************************************)
(* numpy: argsort, squeeze, indexing.                                      *)
(***************************************************************************)
SortBuilds == {"stable", "unstable"}

\* whether index i sorts before index j (0-based) in np.argsort(a).  The
\* default kind is quicksort, which leaves the order of equal keys to the
\* build: "stable" keeps them by index (the insertion sort of short
\* arrays), "unstable" is a build that returns them the other way round.
Before(a, i, j, build) ==
    \/ a[i + 1] < a[j + 1]
    \/ /\ a[i + 1] = a[j + 1]
       /\ IF build = "stable" THEN i < j ELSE i > j

\* np.argsort of a 1-d array: the 0-based indices in ascending key order
ArgSort(a, build) ==
    [r \in 1..Len(a) |->
        CHOOSE i \in 0..(Len(a) - 1) :
            Cardinality({ j \in 0..(Len(a) - 1) : Before(a, j, i, build) }) = r - 1]

\* a[idx] for a 1-d array a and a sequence idx of 0-based indices
FancyIndex(a, idx) == [r \in 1..Len(idx) |-> a[idx[r] + 1]]

(***************************************************************************)
(* SparseRetrieval.get_relevant_doc and get_relevant_doc_bulk.             *)
(***************************************************************************)
\* TopK without the [::-1]: the k lowest scores, ascending
TopKAscending(row, k, build) ==
    LET sorted_result == ArgSort(row, build)
    IN  [scores  |-> Take(FancyIndex(row, sorted_result), k),
         indices |-> Take(sorted_result, k)]

\* TopK that drops the documents of zero similarity before the cut
TopKNonzero(row, k, build) ==
    LET sorted_result == SelectSeq(Reverse(ArgSort(row, build)),
                                   LAMBDA d : row[d + 1] # 0)
    IN  [scores  |-> Take(FancyIndex(row, sorted_result), k),
         indices |-> Take(sorted_result, k)]

\* the top k of one 1-d score array: argsort, [::-1], index, [:k]
TopK(row, k, build) ==
    LET sorted_result == Reverse(ArgSort(row, build))
    IN  [scores  |-> Take(FancyIndex(row, sorted_result), k),
         indices |-> Take(sorted_result, k)]

\* result.squeeze() of the 1 x n result of a single query: every axis of
\* length 1 goes, so a 1 x 1 result becomes a 0-dimensional array
Squeeze(result) ==
    IF Len(result[1]) = 1
    THEN [ndim |-> 0, data |-> <<result[1][1]>>]
    ELSE [ndim |-> 1, data |-> result[1]]

GetRelevantDoc(vocab, emb, build, query, k) ==
    LET query_vec == Transform(vocab, <<query>>)
        result == MatMulT(vocab, query_vec, emb)
        squeezed == Squeeze(result)
    IN  IF NpSum(vocab, query_vec) = 0
        THEN [status |-> "AssertionError", scores |-> <<>>, indices |-> <<>>]
        ELSE IF squeezed.ndim = 0
        \* np.argsort of a 0-d array is [0]; indexing the 0-d array with
        \* that index array raises "too many indices for array"
        THEN [status |-> "IndexError", scores |-> <<>>, indices |-> <<>>]
        ELSE LET top == TopK(squeezed.data, k, build)
             IN  [status |-> "ok", scores |-> top.scores, indices |-> top.indices]

GetRelevantDocBulk(vocab, emb, build, queries, k) ==
    LET query_vec == Transform(vocab, queries)
        result == MatMulT(vocab, query_vec, emb)
    IN  IF NpSum(vocab, query_vec) = 0
        THEN [status |-> "AssertionError", scores |-> <<>>, indices |-> <<>>]
        ELSE [status  |-> "ok",
              scores  |-> [i \in 1..Len(result) |-> TopK(result[i], k, build).scores],
              indices |-> [i \in 1..Len(result) |-> TopK(result[i], k, build).indices]]

(***************************************************************************)
(* Text normalization and the corpus loaders.  A text handed to a loader   *)
(* is a sequence of characters, each a one-character string.               *)
(***************************************************************************)
Newline == "\n"
Backslash == "\\"

\* the characters a raw text of the model is made of
RawChars == {"a", "n", " ", "#", "@", Newline, Backslash}

\* the characters of the model that the allow-list of line 50 keeps
AllowedChars == {"a", "b", "c", "m", "n", "t", "1", "2", ".", " ", Newline}

\* whitespace in the sense of the regular expression \s
IsSpace(c) == c \in {" ", Newline}

RECURSIVE ReplaceChar(_, _, _)
\* re.sub of a one-character pattern
ReplaceChar(text, old, new) ==
    IF text = <<>> THEN <<>>
    ELSE <<IF Head(text) = old THEN new ELSE Head(text)>>
             \o ReplaceChar(Tail(text), old, new)

RECURSIVE ReplaceEscapedNewline(_)
\* re.sub(r"\\n", " ", text): a backslash followed by the letter n
ReplaceEscapedNewline(text) ==
    IF Len(text) < 2 THEN text
    ELSE IF text[1] = Backslash /\ text[2] = "n"
         THEN <<" ">> \o ReplaceEscapedNewline(SubSeq(text, 3, Len(text)))
         ELSE <<text[1]>> \o ReplaceEscapedNewline(Tail(text))

\* re.sub of the negated allow-list with ""
KeepAllowed(text) == SelectSeq(text, LAMBDA c : c \in AllowedChars)

RECURSIVE CollapseSpaces(_)
\* re.sub(r"\s+", " ", text)
CollapseSpaces(text) ==
    IF text = <<>> THEN <<>>
    ELSE IF IsSpace(Head(text))
         THEN IF Len(text) >= 2 /\ IsSpace(text[2])
              THEN CollapseSpaces(Tail(text))
              ELSE <<" ">> \o CollapseSpaces(Tail(text))
         ELSE <<Head(text)>> \o CollapseSpaces(Tail(text))

RECURSIVE LStrip(_)
LStrip(text) ==
    IF text # <<>> /\ IsSpace(Head(text)) THEN LStrip(Tail(text)) ELSE text

\* str.strip()
Strip(text) == Reverse(LStrip(Reverse(LStrip(text))))

preprocess(text) ==
    LET t1 == ReplaceChar(text, Newline, " ")
        t2 == ReplaceEscapedNewline(t1)
        t3 == ReplaceChar(t2, "#", " ")
        t4 == KeepAllowed(t3)
    IN  Strip(CollapseSpaces(t4))

RECURSIVE DictFromKeys(_)
\* list(dict.fromkeys(texts)): each text once, in order of first appearance
DictFromKeys(texts) ==
    IF texts = <<>> THEN <<>>
    ELSE LET front == DictFromKeys(SubSeq(texts, 1, Len(texts) - 1))
             last == texts[Len(texts)]
         IN  IF last \in Range(front) THEN front ELSE Append(front, last)

\* load_json on a dataset file whose values have the texts raw, in order
load_json(raw) ==
    LET texts == DictFromKeys(raw)
    IN  [i \in 1..Len(texts) |-> [document_text |-> preprocess(texts[i])]]

\* the contexts SparseRetrieval.__init__ keeps: deduplicated, not normalized
SparseContexts(raw) == DictFromKeys(raw)

RawTexts == UNION { [1..n -> RawChars] : n \in 0..MaxRawLen }

Wikis == UNION { [1..n -> RawTexts] : n \in 0..MaxRawDocs }

LoadInit ==
    /\ wiki \in Wikis
    /\ lcall = NoCall
    /\ contexts = <<>>
    /\ tfidfv = Unfitted
    /\ p_embedding = None
    /\ sort_build = "stable"
    /\ vcall = NoCall
    /\ emd_file = Absent
    /\ tfidfv_file = Absent
    /\ ccall = NoCall
    /\ EsIdle

CallLoadJson ==
    /\ lcall' = [op |-> "load_json", out |-> load_json(wiki)]
    /\ UNCHANGED <<wiki, vecVars, cacheVars, esVars>>

\* SparseRetrieval.__init__ reads the same file and keeps its contexts
CallSparseInit ==
    /\ contexts' = SparseContexts(wiki)
    /\ lcall' = [op |-> "SparseRetrieval", out |-> SparseContexts(wiki)]
    /\ UNCHANGED <<wiki, tfidfv, p_embedding, sort_build, vcall, cacheVars, esVars>>

LoadNext == CallLoadJson \/ CallSparseInit

SpecLoad == LoadInit /\ [][LoadNext]_vars

(***************************************************************************)
(* The document store behind elasticsearch.py: one index, its documents    *)
(* kept as a sequence of hits-to-be [_id, _source], oldest write first.    *)
(* An _id is the text of the id given to es.index: a sequence of           *)
(* characters, the decimal digits of an integer id.                        *)
(***************************************************************************)
\* str(n), the _id the store keeps for an integer id
IdStr(n) == << <<"0", "1", "2", "3", "4", "5", "6", "7", "8", "9">>[n + 1] >>

DocIds(docs) == { docs[i]._id : i \in 1..Len(docs) }

\* es.exists(index, id)
EsExists(docs, id) == id \in DocIds(docs)

\* es.get(index, id), for an id the index holds
EsGet(docs, id) == docs[CHOOSE i \in 1..Len(docs) : docs[i]._id = id]

\* es.delete(index, id)
EsDelete(docs, id) == SelectSeq(docs, LAMBDA d : d._id # id)

\* es.index(index, id, body): creates the document or replaces the one
\* that holds the id
EsIndex(docs, id, body) ==
    Append(EsDelete(docs, id), [_id |-> id, _source |-> body])

\* es.count(index)["count"]
count_doc(docs) == Len(docs)

\* start_id=None, and an integer start_id
NoStartId == [isint |-> FALSE]
IntStartId(n) == [isint |-> TRUE, value |-> n]

\* name.split(".")[0]
RECURSIVE SplitDotFirst(_)
SplitDotFirst(name) ==
    IF name = <<>> \/ Head(name) = "." THEN <<>>
    ELSE <<Head(name)>> \o SplitDotFirst(Tail(name))

\* read_uploadedfile: the corpus and the titles of the uploaded files
read_uploadedfile(files) ==
    [corpus |-> [i \in 1..Len(files) |->
                    [document_text |->
                        SplitDotFirst(files[i].name) \o <<" ">>
                            \o preprocess(files[i].data)]],
     titles |-> [i \in 1..Len(files) |-> SplitDotFirst(files[i].name)]]

\* the id given to document i (0-based) of a bulk load
AssignedId(i, keys, start_id) ==
    IF start_id.isint THEN IdStr(start_id.value + i) ELSE keys[i + 1]

RECURSIVE InsertLoop(_, _, _, _, _, _)
\* for i, text in enumerate(corpus): try es.index(...) except: print(...)
\* over the first n documents; fails are the i whose es.index raises.
\* The log has one entry per es.index call, in call order.
InsertLoop(docs, corpus, keys, start_id, fails, n) ==
    IF n = 0 THEN [docs |-> docs, log |-> <<>>]
    ELSE LET prev == InsertLoop(docs, corpus, keys, start_id, fails, n - 1)
             i == n - 1
             id == AssignedId(i, keys, start_id)
         IN  IF i \in fails
             THEN [docs |-> prev.docs,
                   log  |-> Append(prev.log, [i |-> i, id |-> id, ok |-> FALSE])]
             ELSE [docs |-> EsIndex(prev.docs, id, corpus[n]),
                   log  |-> Append(prev.log, [i |-> i, id |-> id, ok |-> TRUE])]

\* insert_data_st: the loop over the whole corpus (count_doc follows)
insert_data_st(docs, corpus, titles, start_id, fails) ==
    InsertLoop(docs, corpus, titles, start_id, fails, Len(corpus))

\* the keys insert_data falls back on: the position i
PositionKeys(corpus) == [i \in 1..Len(corpus) |-> IdStr(i - 1)]

\* the files a user uploads, and the dataset files insert_data reads
UploadFiles ==
    { [name |-> <<"m", ".", "t">>, data |-> <<"a">>],
      [name |-> <<"m", ".", "1", ".", "t">>, data |-> <<"b", "#">>],
      [name |-> <<"n", ".", "t">>, data |-> <<"c">>] }

UploadBatches == DistinctSeqs(UploadFiles, 1, MaxBatch)

DatasetTexts == { <<"a">>, <<"a", " ">> }

Datasets == DistinctSeqs(DatasetTexts, 1, MaxBatch)

StartIds == {NoStartId, IntStartId(1)}

StoreInit ==
    /\ es_exists = FALSE
    /\ es_docs = <<>>
    /\ ecall = NoCall
    /\ LoadIdle
    /\ contexts = <<>>
    /\ tfidfv = Unfitted
    /\ p_embedding = None
    /\ sort_build = "stable"
    /\ vcall = NoCall
    /\ emd_file = Absent
    /\ tfidfv_file = Absent
    /\ ccall = NoCall

\* the index as the store holds it
Store(exists, docs) == [exists |-> exists, docs |-> docs]

\* delete_index: deletes the index if es.indices.exists, else only prints.
\* The result is the store after the call, what was printed, and whether
\* the call returned ("ok") or raised.
delete_index(st) ==
    IF st.exists
    THEN [store |-> Store(FALSE, <<>>), printed |-> "Deleting index", status |-> "ok"]
    ELSE [store |-> st, printed |-> "does not exist", status |-> "ok"]

\* create_index: es.indices.create raises on an index that already exists
create_index(st) ==
    IF st.exists
    THEN [store |-> st, printed |-> "", status |-> "resource_already_exists_exception"]
    ELSE [store |-> Store(TRUE, <<>>), printed |-> "Index creation has been completed",
          status |-> "ok"]

\* the two steps in the other order: create_index, then delete_index
initial_index_create_first(st) ==
    LET c == create_index(st)
        d == delete_index(c.store)
    IN  IF c.status # "ok"
        THEN [store |-> c.store, steps |-> <<"create_index">>, status |-> c.status]
        ELSE [store |-> d.store, steps |-> <<"create_index", "delete_index">>,
              status |-> d.status]

\* initial_index: delete_index, then create_index
initial_index(st) ==
    LET d == delete_index(st)
        c == create_index(d.store)
    IN  [store |-> c.store, steps |-> <<"delete_index", "create_index">>,
         status |-> c.status]

\* delete_index(es, index_name)
DeleteIndex ==
    LET before == Store(es_exists, es_docs)
        r == delete_index(before)
    IN  /\ es_exists' = r.store.exists
        /\ es_docs' = r.store.docs
        /\ ecall' = [op |-> "delete_index", before |-> before,
                     out |-> r.printed, status |-> r.status]
        /\ UNCHANGED <<vecVars, cacheVars, loadVars>>

\* initial_index(es, index_name, setting_path)
InitialIndex ==
    LET before == Store(es_exists, es_docs)
        r == initial_index(before)
    IN  /\ es_exists' = r.store.exists
        /\ es_docs' = r.store.docs
        /\ ecall' = [op |-> "initial_index", before |-> before,
                     steps |-> r.steps, status |-> r.status]
        /\ UNCHANGED <<vecVars, cacheVars, loadVars>>

\* the sets of documents whose es.index may raise during one bulk load of
\* n documents: any of them, or none while the store is healthy
FailSets(n, healthy) == IF healthy THEN {{}} ELSE SUBSET (0..(n - 1))

\* user_setting(es, index_name, corpus, titles, type="first")
UserSettingFirstOn(healthy) ==
    \E files \in UploadBatches :
    \E fails \in FailSets(Len(files), healthy) :
        LET up == read_uploadedfile(files)
            fresh == initial_index(Store(es_exists, es_docs)).store
            loop == insert_data_st(fresh.docs, up.corpus, up.titles, NoStartId, fails)
        IN  /\ es_exists' = fresh.exists
            /\ es_docs' = loop.docs
            /\ ecall' = [op |-> "user_setting first", log |-> loop.log, out |-> "ok",
                         before_ids |-> {}, before_count |-> 0]
            /\ UNCHANGED <<vecVars, cacheVars, loadVars>>

\* user_setting(es, index_name, corpus, titles, type="second")
UserSettingSecondOn(healthy) ==
    \E files \in UploadBatches :
    \E fails \in FailSets(Len(files), healthy) :
        LET up == read_uploadedfile(files)
            doc_num == count_doc(es_docs)
            loop == insert_data_st(es_docs, up.corpus, up.titles,
                                   IntStartId(doc_num), fails)
        IN  /\ Len(es_docs) < MaxStoreDocs
            /\ IF es_exists
               THEN /\ es_docs' = loop.docs
                    /\ ecall' = [op |-> "user_setting second",
                                 log |-> loop.log, out |-> "ok",
                                 before_ids |-> DocIds(es_docs),
                                 before_count |-> doc_num]
               ELSE \* count_doc of a missing index raises
                    /\ es_docs' = es_docs
                    /\ ecall' = [op |-> "user_setting second",
                                 log |-> <<>>, out |-> "NotFoundError",
                                 before_ids |-> {}, before_count |-> 0]
            /\ UNCHANGED <<es_exists, vecVars, cacheVars, loadVars>>

\* delete_doc(es, index_name, doc_id), of a document the index holds or of
\* an id it does not hold: es.get of that one raises before any deletion
DeleteDoc ==
    \E id \in DocIds(es_docs) \cup {<<"x">>} :
        /\ IF id \in DocIds(es_docs)
           THEN /\ es_docs' = IF EsExists(es_docs, id)
                              THEN EsDelete(es_docs, id) ELSE es_docs
                /\ ecall' = [op |-> "delete_doc", id |-> id,
                             out |-> EsGet(es_docs, id)._source.document_text]
           ELSE /\ es_docs' = es_docs
                /\ ecall' = [op |-> "delete_doc", id |-> id, out |-> <<"NotFoundError">>]
        /\ UNCHANGED <<es_exists, vecVars, cacheVars, loadVars>>

UserSettingFirst == UserSettingFirstOn(FALSE)
UserSettingSecond == UserSettingSecondOn(FALSE)

\* the same calls against a store on which no es.index raises
HealthyUserSettingFirst == UserSettingFirstOn(TRUE)
HealthyUserSettingSecond == UserSettingSecondOn(TRUE)

StoreNext ==
    \/ DeleteIndex
    \/ InitialIndex
    \/ UserSettingFirst
    \/ UserSettingSecond
    \/ DeleteDoc

SpecStore == StoreInit /\ [][StoreNext]_vars

\* only user_setting and delete_doc, on a healthy store
IdsNext == HealthyUserSettingFirst \/ HealthyUserSettingSecond \/ DeleteDoc

SpecIds == StoreInit /\ [][IdsNext]_vars

\* index deletion and (re)creation, on an index that healthy uploads fill
\* and delete_doc thins out
IndexNext ==
    \/ DeleteIndex
    \/ InitialIndex
    \/ HealthyUserSettingFirst
    \/ HealthyUserSettingSecond
    \/ DeleteDoc

SpecIndex == StoreInit /\ [][IndexNext]_vars

(***************************************************************************)
(* The bulk loaders on their own: an index as main() leaves it (created,   *)
(* a dataset loaded under its positions), then insert_data and             *)
(* insert_data_st called with every input of the model.                    *)
(***************************************************************************)
BulkInit ==
    /\ es_exists = TRUE
    /\ \E raw \in Datasets \cup {<<>>} :
          es_docs = InsertLoop(<<>>, load_json(raw), PositionKeys(load_json(raw)),
                               NoStartId, {}, Len(load_json(raw))).docs
    /\ ecall = NoCall
    /\ LoadIdle
    /\ contexts = <<>>
    /\ tfidfv = Unfitted
    /\ p_embedding = None
    /\ sort_build = "stable"
    /\ vcall = NoCall
    /\ emd_file = Absent
    /\ tfidfv_file = Absent
    /\ ccall = NoCall

\* insert_data(es, index_name, dataset_path, type="json", start_id)
InsertData ==
    \E raw \in Datasets, start_id \in StartIds :
    \E fails \in SUBSET (0..(Len(raw) - 1)) :
        LET corpus == load_json(raw)
            loop == InsertLoop(es_docs, corpus, PositionKeys(corpus), start_id,
                               fails, Len(corpus))
        IN  /\ Len(es_docs) < MaxStoreDocs
            /\ es_docs' = loop.docs
            /\ ecall' = [op |-> "insert_data", corpus |-> corpus, log |-> loop.log,
                         out |-> "ok"]
            /\ UNCHANGED <<es_exists, vecVars, cacheVars, loadVars>>

\* insert_data_st(es, index_name, corpus, titles, start_id)
InsertDataSt ==
    \E files \in UploadBatches, start_id \in StartIds :
    \E fails \in SUBSET (0..(Len(files) - 1)) :
        LET up == read_uploadedfile(files)
            loop == insert_data_st(es_docs, up.corpus, up.titles, start_id, fails)
        IN  /\ Len(es_docs) < MaxStoreDocs
            /\ es_docs' = loop.docs
            /\ ecall' = [op |-> "insert_data_st", corpus |-> up.corpus,
                         log |-> loop.log, out |-> "ok"]
            /\ UNCHANGED <<es_exists, vecVars, cacheVars, loadVars>>

BulkNext == InsertData \/ InsertDataSt

SpecBulk == BulkInit /\ [][BulkNext]_vars

(***************************************************************************)
(* The remote-index strategy: es_search and ElasticRetrieval.  The store   *)
(* answers a match query with the documents that contain at least one     *)
(* word of the question, scored by its default similarity, BM25 with       *)
(* k1 = 1.2 and b = 0.75 over the one shard of the index, best first and   *)
(* equal scores in the order the documents were written.                   *)
(***************************************************************************)
RECURSIVE Tokens(_)
\* the words of a text in order: its maximal runs of non-space characters
Tokens(text) ==
    IF text = <<>> THEN <<>>
    ELSE IF IsSpace(Head(text)) THEN Tokens(Tail(text))
    ELSE LET n == CHOOSE m \in 1..Len(text) :
                      /\ \A i \in 1..m : ~IsSpace(text[i])
                      /\ (m = Len(text) \/ IsSpace(text[m + 1]))
         IN  <<SubSeq(text, 1, n)>> \o Tokens(SubSeq(text, n + 1, Len(text)))

\* the distinct words of a text
Words(text) == Range(Tokens(text))

RECURSIVE TokenLists(_)
\* the analyzed document_text of every document of the index
TokenLists(docs) ==
    IF docs = <<>> THEN <<>>
    ELSE <<Tokens(Head(docs)._source.document_text)>> \o TokenLists(Tail(docs))

\* how many times word w occurs among the tokens of one document
TermFreq(w, toks) == Cardinality({ i \in 1..Len(toks) : toks[i] = w })

\* BM25 of one word for document d of the index:
\*   idf = ln(1 + (N - n + 0.5) / (n + 0.5)) = ln((2N + 2) / (2n + 1))
\*   tf / (tf + k1 * (1 - b + b * dl / avgdl)), avgdl = T / N,
\*     = 10 tf T / (10 tf T + 3 T + 9 dl N)
\* N the documents that have a word, n those that have w, T all words
TermScore(tokens, w, d) ==
    LET N == Cardinality({ i \in 1..Len(tokens) : Len(tokens[i]) > 0 })
        n == Cardinality({ i \in 1..Len(tokens) : TermFreq(w, tokens[i]) > 0 })
        T == SumSeq([i \in 1..Len(tokens) |-> Len(tokens[i])])
        tf == TermFreq(w, tokens[d])
        den == 10 * tf * T + 3 * T + 9 * Len(tokens[d]) * N
    IN  IF tf = 0 THEN 0
        ELSE (Ln(2 * N + 2, 2 * n + 1) * (10 * tf * T) + den \div 2) \div den

RECURSIVE MatchScoresUpTo(_, _, _)
\* the scores of the first d documents
MatchScoresUpTo(tokens, words, d) ==
    IF d = 0 THEN <<>>
    ELSE Append(MatchScoresUpTo(tokens, words, d - 1),
                SumOver(words, [w \in words |-> TermScore(tokens, w, d)]))

\* the _score of every document of the index for a match query on
\* document_text: the sum of the BM25 of the question's words
MatchScores(docs, question) ==
    MatchScoresUpTo(TokenLists(docs), Words(question), Len(docs))

\* es_search(es, index_name, question, topk)["hits"]["hits"]
es_search(docs, question, topk) ==
    LET scores == MatchScores(docs, question)
        matching == SelectSeq([i \in 1..Len(docs) |-> i], LAMBDA i : scores[i] > 0)
        order == ArgSort([r \in 1..Len(matching) |-> 0 - scores[matching[r]]],
                         "stable")
    IN  Take([r \in 1..Len(matching) |->
                 [_id     |-> docs[matching[order[r] + 1]]._id,
                  _score  |-> scores[matching[order[r] + 1]],
                  _source |-> docs[matching[order[r] + 1]]._source]], topk)

\* ElasticRetrieval.get_relevant_doc
ElasticGetRelevantDoc(docs, query, k) ==
    LET hits == es_search(docs, query, k)
    IN  [doc_score |-> [i \in 1..Len(hits) |-> hits[i]._score],
         doc_index |-> [i \in 1..Len(hits) |-> hits[i]._id],
         docs      |-> hits]

RECURSIVE ElasticBulkLoop(_, _, _, _)
\* the loop of ElasticRetrieval.get_relevant_doc_bulk over the first n
\* queries: the ids of the hits are appended to doc_indices itself, and
\* doc_index, still empty, is appended after them
ElasticBulkLoop(docs, queries, k, n) ==
    IF n = 0 THEN [doc_scores |-> <<>>, doc_indices |-> <<>>, total_docs |-> <<>>]
    ELSE LET prev == ElasticBulkLoop(docs, queries, k, n - 1)
             hits == es_search(docs, queries[n], k)
             doc_score == [i \in 1..Len(hits) |-> hits[i]._score]
             doc_index == <<>>
         IN  [doc_scores  |-> Append(prev.doc_scores, doc_score),
              doc_indices |-> Append(prev.doc_indices
                                       \o [i \in 1..Len(hits) |-> hits[i]._id],
                                     doc_index),
              total_docs  |-> Append(prev.total_docs, hits)]

\* ElasticRetrieval.get_relevant_doc_bulk
ElasticGetRelevantDocBulk(docs, queries, k) ==
    ElasticBulkLoop(docs, queries, k, Len(queries))

\* ElasticRetrieval.retrieve of a single string query
ElasticRetrieveStr(docs, query, topk) ==
    LET got == ElasticGetRelevantDoc(docs, query, topk)
    IN  \* [doc_indices[i] for i in range(topk)]
        IF topk > Len(got.doc_index)
        THEN [status |-> "IndexError", doc_scores |-> <<>>, doc_indices |-> <<>>]
        ELSE [status |-> "ok", doc_scores |-> got.doc_score,
              doc_indices |-> Take(got.doc_index, topk)]

\* the texts of the indexed dataset and the questions asked
SearchTexts == { <<"a">>, <<"a", " ", "b">>, <<"c">> }

SearchDatasets == DistinctSeqs(SearchTexts, 0, MaxDocs)

Questions == { <<"a">>, <<"b", " ", "a">>, <<"n">> }

QuestionLists == UNION { [1..n -> Questions] : n \in 1..MaxQueries }

\* main(): initial_index, then insert_data of the dataset
SearchInit ==
    /\ es_exists = TRUE
    /\ \E raw \in SearchDatasets :
          es_docs = InsertLoop(<<>>, load_json(raw), PositionKeys(load_json(raw)),
                               NoStartId, {}, Len(load_json(raw))).docs
    /\ ecall = NoCall
    /\ LoadIdle
    /\ contexts = <<>>
    /\ tfidfv = Unfitted
    /\ p_embedding = None
    /\ sort_build = "stable"
    /\ vcall = NoCall
    /\ emd_file = Absent
    /\ tfidfv_file = Absent
    /\ ccall = NoCall

CallElasticGetRelevantDoc ==
    \E query \in Questions, k \in KRange :
        /\ ecall' = [op |-> "get_relevant_doc", query |-> query, k |-> k,
                     out |-> ElasticGetRelevantDoc(es_docs, query, k)]
        /\ UNCHANGED <<es_exists, es_docs, vecVars, cacheVars, loadVars>>

CallElasticGetRelevantDocBulk ==
    \E queries \in QuestionLists, k \in KRange :
        /\ ecall' = [op |-> "get_relevant_doc_bulk", queries |-> queries, k |-> k,
                     out |-> ElasticGetRelevantDocBulk(es_docs, queries, k)]
        /\ UNCHANGED <<es_exists, es_docs, vecVars, cacheVars, loadVars>>

CallElasticRetrieveStr ==
    \E query \in Questions, topk \in KRange :
        /\ ecall' = [op |-> "retrieve", query |-> query, k |-> topk,
                     out |-> ElasticRetrieveStr(es_docs, query, topk)]
        /\ UNCHANGED <<es_exists, es_docs, vecVars, cacheVars, loadVars>>

SearchNext ==
    \/ CallElasticGetRelevantDoc
    \/ CallElasticGetRelevantDocBulk
    \/ CallElasticRetrieveStr

SpecSearch == SearchInit /\ [][SearchNext]_vars

(***************************************************************************)
(* The vector strategy as a state machine: a SparseRetrieval constructed   *)
(* on some corpus, its embedding set by get_sparse_embedding, then queried.*)
(***************************************************************************)
\* pickle.dump / pickle.load of an object
Pickle(obj) == [isfile |-> TRUE, blob |-> obj]
Unpickle(file) == file.blob

\* the state get_sparse_embedding leaves when it takes the build branch
\* (lines 70-78): vectorizer and embedding fitted on the corpus the object
\* was constructed on, and both pickled
BuiltInit ==
    /\ contexts \in Corpora
    /\ tfidfv = Fit(contexts)
    /\ p_embedding = FitTransform(contexts)
    /\ sort_build \in SortBuilds
    /\ vcall = NoCall
    /\ emd_file = Pickle(p_embedding)
    /\ tfidfv_file = Pickle(tfidfv)
    /\ ccall = NoCall
    /\ LoadIdle
    /\ EsIdle

\* the state after __init__ and get_sparse_embedding, whichever branch ran.
\* The two blobs on disk were pickled by the build branch of this or of an
\* earlier run, for the corpus `fitted` of that run; the load branch (lines
\* 64-69) takes them as they are, so with fitted # contexts the embedding
\* has one row per document of `fitted`, not of the current corpus.  With
\* fitted = contexts this is the state of BuiltInit.
VecInit ==
    \E fitted \in Corpora :
        /\ contexts \in Corpora
        /\ tfidfv = Fit(fitted)
        /\ p_embedding = FitTransform(fitted)
        /\ sort_build \in SortBuilds
        /\ vcall = NoCall
        /\ emd_file = Pickle(p_embedding)
        /\ tfidfv_file = Pickle(tfidfv)
        /\ ccall = NoCall
        /\ LoadIdle
        /\ EsIdle

CallGetRelevantDoc ==
    \E query \in Queries, k \in KRange :
        /\ vcall' = [op |-> "get_relevant_doc", query |-> query, k |-> k,
                     out |-> GetRelevantDoc(tfidfv, p_embedding, sort_build, query, k)]
        /\ UNCHANGED <<contexts, tfidfv, p_embedding, sort_build, cacheVars, loadVars, esVars>>

CallGetRelevantDocBulk ==
    \E queries \in QueryLists, k \in KRange :
        /\ vcall' = [op |-> "get_relevant_doc_bulk", queries |-> queries, k |-> k,
                     out |-> GetRelevantDocBulk(tfidfv, p_embedding, sort_build, queries, k)]
        /\ UNCHANGED <<contexts, tfidfv, p_embedding, sort_build, cacheVars, loadVars, esVars>>

VecNext == CallGetRelevantDoc \/ CallGetRelevantDocBulk

\* single and bulk queries on a freshly built embedding.  The two calls
\* read tfidfv, p_embedding and sort_build only, never contexts, and every
\* value these three take in a state of VecInit they take in a state of
\* BuiltInit.
SpecVec == BuiltInit /\ [][VecNext]_vars

\* single queries from every state get_sparse_embedding can leave, the
\* loads of blobs of another corpus included
SpecRank == VecInit /\ [][CallGetRelevantDoc]_vars

(***************************************************************************)
(* retrieve and retrieve_split of a whole Dataset: one example per query,  *)
(* each a dict with the keys of the dataset's columns.                     *)
(***************************************************************************)
\* the columns a query dataset can have: a test set, a set that has the
\* ground-truth context but no answers, and a validation set with both
ColumnSets == {"test", "context only", "validation"}

\* example i (0-based) of a query dataset with these columns
Example(question, i, columns) ==
    CASE columns = "test" ->
            [question |-> question, id |-> <<"q">> \o IdStr(i)]
      [] columns = "context only" ->
            [question |-> question, id |-> <<"q">> \o IdStr(i),
             context |-> <<"gold">> \o IdStr(i)]
      [] columns = "validation" ->
            [question |-> question, id |-> <<"q">> \o IdStr(i),
             context |-> <<"gold">> \o IdStr(i),
             answers |-> <<"answer">> \o IdStr(i)]

QueryDataset(questions, columns) ==
    [n \in 1..Len(questions) |-> Example(questions[n], n - 1, columns)]

\* query_or_dataset["question"]
QuestionColumn(dataset) == [n \in 1..Len(dataset) |-> dataset[n].question]

RECURSIVE Join(_, _)
\* sep.join(parts)
Join(sep, parts) ==
    IF parts = <<>> THEN <<>>
    ELSE IF Len(parts) = 1 THEN parts[1]
    ELSE parts[1] \o sep \o Join(sep, Tail(parts))

\* the dict tmp that retrieve builds for one example
RetrieveRecord(example, context_id, context) ==
    IF {"context", "answers"} \subseteq DOMAIN example
    THEN [question |-> example.question, id |-> example.id,
          context_id |-> context_id, context |-> context,
          original_context |-> example.context, answers |-> example.answers]
    ELSE [question |-> example.question, id |-> example.id,
          context_id |-> context_id, context |-> context]

\* SparseRetrieval.retrieve of a Dataset.  A context is a sequence of word
\* tokens, and the separator of the join is the token " " between two
\* contexts.
SparseRetrieveDataset(ctxs, vocab, emb, build, dataset, topk) ==
    IF emb = None
    THEN [status |-> "AssertionError", cqas |-> <<>>]
    ELSE LET got == GetRelevantDocBulk(vocab, emb, build,
                                       QuestionColumn(dataset), topk)
         IN  IF got.status # "ok"
             THEN [status |-> got.status, cqas |-> <<>>]
             ELSE [status |-> "ok",
                   cqas |-> [n \in 1..Len(dataset) |->
                       RetrieveRecord(dataset[n], got.indices[n],
                           Join(<<" ">>,
                                [j \in 1..Len(got.indices[n]) |->
                                    ctxs[got.indices[n][j] + 1]]))]]

\* the texts of the first min(topk, len(docs)) hits of one query
RetrievedContext(hits, topk) ==
    [i \in 1..Min(topk, Len(hits)) |-> hits[i]._source.document_text]

\* ElasticRetrieval.retrieve of a Dataset; doc_indices[idx] is read from
\* the list that get_relevant_doc_bulk returned
ElasticRetrieveDataset(docs, dataset, topk) ==
    LET got == ElasticGetRelevantDocBulk(docs, QuestionColumn(dataset), topk)
    IN  [status |-> "ok",
         cqas |-> [n \in 1..Len(dataset) |->
             RetrieveRecord(dataset[n], got.doc_indices[n],
                 Join(<<" ">>, RetrievedContext(got.total_docs[n], topk)))]]

\* the dict tmp that retrieve_split builds for hit i (0-based) of an example
SplitRecord(example, doc_indices, i, context) ==
    IF {"context", "answers"} \subseteq DOMAIN example
    THEN [question |-> example.question, id |-> doc_indices[i + 1],
          context_id |-> doc_indices[i + 1], context |-> context,
          original_context |-> example.context, answers |-> example.answers]
    ELSE [question |-> example.question, id |-> doc_indices[i + 1],
          context_id |-> doc_indices[i + 1], context |-> context]

\* ElasticRetrieval.retrieve_split: the return statement stands inside the
\* loop over the examples, so the frame of the first example is returned;
\* with no example the loop body never runs and the call returns None
ElasticRetrieveSplit(docs, dataset, topk) ==
    LET got == ElasticGetRelevantDocBulk(docs, QuestionColumn(dataset), topk)
    IN  IF dataset = <<>>
        THEN [status |-> "ok", returned |-> "None", cqas |-> <<>>]
        ELSE LET retrieved_context == RetrievedContext(got.total_docs[1], topk)
             IN  [status |-> "ok", returned |-> "DataFrame",
                  cqas |-> [r \in 1..Len(retrieved_context) |->
                      SplitRecord(dataset[1], got.doc_indices, r - 1,
                                  retrieved_context[r])]]

\* the corpora, indexed datasets and topk of the dataset calls: topk
\* below, at and above the number of documents
ShapeCorpora == DistinctSeqs(Texts, 1, MaxDocs - 1)

ShapeDatasets == DistinctSeqs(SearchTexts, 0, MaxDocs - 1)

ShapeKRange == 1..MaxDocs

\* an ElasticRetrieval on an index that main() has loaded
SplitInit ==
    /\ es_exists = TRUE
    /\ \E raw \in ShapeDatasets :
          es_docs = InsertLoop(<<>>, load_json(raw), PositionKeys(load_json(raw)),
                               NoStartId, {}, Len(load_json(raw))).docs
    /\ ecall = NoCall
    /\ contexts = <<>>
    /\ tfidfv = Unfitted
    /\ p_embedding = None
    /\ sort_build = "stable"
    /\ vcall = NoCall
    /\ emd_file = Absent
    /\ tfidfv_file = Absent
    /\ ccall = NoCall
    /\ LoadIdle

\* a SparseRetrieval on some corpus in a data directory without the two
\* files, before get_sparse_embedding or after it has built and saved
SparseInit ==
    /\ contexts \in ShapeCorpora
    /\ \/ /\ tfidfv = Fit(contexts)
          /\ p_embedding = FitTransform(contexts)
          /\ emd_file = Pickle(p_embedding)
          /\ tfidfv_file = Pickle(tfidfv)
          /\ sort_build \in SortBuilds
       \/ /\ tfidfv = Unfitted
          /\ p_embedding = None
          /\ emd_file = Absent
          /\ tfidfv_file = Absent
          /\ sort_build = "stable"
    /\ vcall = NoCall
    /\ ccall = NoCall
    /\ LoadIdle
    /\ EsIdle

\* the objects of the machine of retrieve: one retriever of either strategy
ShapeInit == SparseInit \/ SplitInit

\* SparseRetrieval.retrieve(dataset, topk)
CallSparseRetrieve ==
    \E questions \in QueryLists, columns \in ColumnSets, topk \in ShapeKRange :
        LET dataset == QueryDataset(questions, columns)
        IN  /\ contexts # <<>>
            /\ vcall' = [op |-> "retrieve", dataset |-> dataset, k |-> topk,
                         out |-> SparseRetrieveDataset(contexts, tfidfv, p_embedding,
                                                       sort_build, dataset, topk)]
            /\ UNCHANGED <<contexts, tfidfv, p_embedding, sort_build,
                           cacheVars, loadVars, esVars>>

\* ElasticRetrieval.retrieve(dataset, topk)
CallElasticRetrieve ==
    \E questions \in QuestionLists, columns \in ColumnSets, topk \in ShapeKRange :
        LET dataset == QueryDataset(questions, columns)
        IN  /\ es_exists
            /\ ecall' = [op |-> "retrieve dataset", dataset |-> dataset, k |-> topk,
                         out |-> ElasticRetrieveDataset(es_docs, dataset, topk)]
            /\ UNCHANGED <<es_exists, es_docs, vecVars, cacheVars, loadVars>>

\* ElasticRetrieval.retrieve_split(dataset, topk)
CallElasticRetrieveSplit ==
    \E questions \in QuestionLists, columns \in ColumnSets, topk \in ShapeKRange :
        LET dataset == QueryDataset(questions, columns)
        IN  /\ es_exists
            /\ ecall' = [op |-> "retrieve_split", dataset |-> dataset, k |-> topk,
                         out |-> ElasticRetrieveSplit(es_docs, dataset, topk)]
            /\ UNCHANGED <<es_exists, es_docs, vecVars, cacheVars, loadVars>>

ShapeNext == CallSparseRetrieve \/ CallElasticRetrieve

SpecShape == ShapeInit /\ [][ShapeNext]_vars

SplitNext == CallElasticRetrieveSplit

SpecSplit == SplitInit /\ [][SplitNext]_vars

(***************************************************************************)
(* Properties of the vector strategy.                                      *)
(***************************************************************************)
\* the similarity of every document to one query, in corpus order
ScoreRow(query) ==
    MatMulT(tfidfv, Transform(tfidfv, <<query>>), p_embedding)[1]

\* a query passes the vocabulary guard when its vector is not all zero
PassesGuard(query) == NpSum(tfidfv, Transform(tfidfv, <<query>>)) # 0

\* every token of the query is absent from the vocabulary
OutOfVocabulary(query) ==
    \A i \in 1..Len(query) : <<query[i]>> \notin Vocabulary(tfidfv)

NonIncreasing(s) == \A i \in 1..(Len(s) - 1) : s[i] >= s[i + 1]

\* scores/indices are a ranked selection of row: the scores are those of the
\* indexed documents, in non-increasing order, and no document left out
\* scores strictly higher than a returned one
RankedSelection(row, scores, indices) ==
    /\ Len(scores) = Len(indices)
    /\ \A r \in 1..Len(indices) :
          indices[r] \in 0..(Len(row) - 1) /\ scores[r] = row[indices[r] + 1]
    /\ NonIncreasing(scores)
    /\ \A d \in 0..(Len(row) - 1) :
          d \notin Range(indices) =>
              \A r \in 1..Len(scores) : row[d + 1] <= scores[r]

SingleReturned == vcall.op = "get_relevant_doc" /\ vcall.out.status = "ok"
BulkReturned == vcall.op = "get_relevant_doc_bulk" /\ vcall.out.status = "ok"

\* C1: whenever get_relevant_doc returns, and for each per-query list that
\* get_relevant_doc_bulk returns for a query passing the guard, the scores
\* are in non-increasing order and no document left out of the result has
\* a score strictly greater than a returned one.
C1_RankOrdering ==
    /\ SingleReturned =>
          RankedSelection(ScoreRow(vcall.query), vcall.out.scores, vcall.out.indices)
    /\ BulkReturned =>
          \A i \in 1..Len(vcall.queries) :
              PassesGuard(vcall.queries[i]) =>
                  RankedSelection(ScoreRow(vcall.queries[i]),
                                  vcall.out.scores[i], vcall.out.indices[i])

\* C1 witness: a single query returned two or more results in strictly
\* decreasing score order and left out a document that scores lower still.
C1_Witness ==
    /\ SingleReturned
    /\ Len(vcall.out.scores) >= 2
    /\ vcall.out.scores[1] > vcall.out.scores[2]
    /\ \E d \in 0..(Len(p_embedding) - 1) :
          /\ d \notin Range(vcall.out.indices)
          /\ ScoreRow(vcall.query)[d + 1] < vcall.out.scores[Len(vcall.out.scores)]

\* the number of documents whose similarity to the query is nonzero
NonzeroDocs(query) ==
    Cardinality({ d \in 1..Len(p_embedding) : ScoreRow(query)[d] # 0 })

\* C2 as stated: get_relevant_doc returns min(k, number of documents of
\* nonzero similarity) results, none of them of zero similarity.
C2_Original ==
    SingleReturned =>
        /\ Len(vcall.out.indices) = Min(vcall.k, NonzeroDocs(vcall.query))
        /\ \A r \in 1..Len(vcall.out.scores) : vcall.out.scores[r] # 0

\* C2 amended: whenever get_relevant_doc returns, it returns min(k, number
\* of rows of p_embedding) scores and as many indices, the documents of
\* zero similarity included; the rows of p_embedding are the documents of
\* the corpus the embedding was built from, which is the current corpus
\* only when the blobs loaded were not those of another corpus.
C2_LengthIsMinKRows ==
    SingleReturned =>
        /\ Len(vcall.out.indices) = Min(vcall.k, Len(p_embedding))
        /\ Len(vcall.out.scores) = Min(vcall.k, Len(p_embedding))

\* C2 witness: k exceeds the number of documents of nonzero similarity, a
\* zero-similarity document is among the results, and the embedding is a
\* loaded one with another number of rows than the current corpus has
\* documents.
C2_Witness ==
    /\ SingleReturned
    /\ vcall.k > NonzeroDocs(vcall.query)
    /\ \E r \in 1..Len(vcall.out.scores) : vcall.out.scores[r] = 0
    /\ Len(p_embedding) # Len(contexts)

\* C3: a query made only of out-of-vocabulary tokens makes retrieval fail
\* with the empty-query-vector assertion, alone or as one query of a bulk
\* call.
C3_OovFails ==
    /\ (vcall.op = "get_relevant_doc" /\ OutOfVocabulary(vcall.query)) =>
          vcall.out.status = "AssertionError"
    /\ (vcall.op = "get_relevant_doc_bulk"
          /\ \E i \in 1..Len(vcall.queries) : OutOfVocabulary(vcall.queries[i])) =>
          vcall.out.status = "AssertionError"

\* C4: for a query q passing the guard and every k, get_relevant_doc(q, k)
\* returns the scores and the indices found at position 0 of
\* get_relevant_doc_bulk([q], k), tied documents in the same order.
C4_BulkSingleEquivalence ==
    (vcall.op = "get_relevant_doc" /\ PassesGuard(vcall.query)) =>
        LET bulk == GetRelevantDocBulk(tfidfv, p_embedding, sort_build,
                                       <<vcall.query>>, vcall.k)
        IN  /\ bulk.status = "ok"
            /\ vcall.out.status = "ok"
            /\ vcall.out.scores = bulk.scores[1]
            /\ vcall.out.indices = bulk.indices[1]

(***************************************************************************)
(* The embedding cache: SparseRetrieval.__init__, get_sparse_embedding and *)
(* the two persisted artifacts, which only a deletion from outside removes.*)
(***************************************************************************)
CacheCorpora == DistinctSeqs(Texts, 1, MaxCacheDocs)

\* the test of line 64 with `or` for `and`
EitherArtifactPresent(emd, tfv) == emd # Absent \/ tfv # Absent

\* os.path.isfile(emd_path) and os.path.isfile(tfidfv_path)
BothArtifactsPresent(emd, tfv) == emd # Absent /\ tfv # Absent

CacheInit ==
    /\ contexts \in CacheCorpora
    /\ tfidfv = Unfitted
    /\ p_embedding = None
    /\ emd_file = Absent
    /\ tfidfv_file = Absent
    /\ ccall = NoCall
    /\ sort_build = "stable"
    /\ vcall = NoCall
    /\ LoadIdle
    /\ EsIdle

\* a new process constructs a SparseRetrieval on the corpus now on disk
Construct ==
    \E corpus \in CacheCorpora :
        /\ contexts' = corpus
        /\ tfidfv' = Unfitted
        /\ p_embedding' = None
        /\ ccall' = [op |-> "__init__"]
        /\ UNCHANGED <<emd_file, tfidfv_file, sort_build, vcall, loadVars, esVars>>

GetSparseEmbedding ==
    LET before == [emd |-> emd_file, tfidfv |-> tfidfv_file] IN
    /\ UNCHANGED <<loadVars, esVars>>
    /\ IF BothArtifactsPresent(emd_file, tfidfv_file)
       THEN \* open() of a missing file raises FileNotFoundError
            IF emd_file = Absent
            THEN /\ ccall' = [op |-> "get_sparse_embedding", before |-> before,
                              out |-> "FileNotFoundError"]
                 /\ UNCHANGED <<contexts, tfidfv, p_embedding, emd_file, tfidfv_file,
                                sort_build, vcall>>
            ELSE IF tfidfv_file = Absent
            THEN /\ p_embedding' = Unpickle(emd_file)
                 /\ ccall' = [op |-> "get_sparse_embedding", before |-> before,
                              out |-> "FileNotFoundError"]
                 /\ UNCHANGED <<contexts, tfidfv, emd_file, tfidfv_file,
                                sort_build, vcall>>
            ELSE /\ p_embedding' = Unpickle(emd_file)
                 /\ tfidfv' = Unpickle(tfidfv_file)
                 /\ ccall' = [op |-> "get_sparse_embedding", before |-> before,
                              out |-> "Embedding pickle load."]
                 /\ UNCHANGED <<contexts, emd_file, tfidfv_file, sort_build, vcall>>
       ELSE /\ p_embedding' = FitTransform(contexts)
            /\ tfidfv' = Fit(contexts)
            /\ emd_file' = Pickle(FitTransform(contexts))
            /\ tfidfv_file' = Pickle(Fit(contexts))
            /\ ccall' = [op |-> "get_sparse_embedding", before |-> before,
                         out |-> "Embedding pickle saved."]
            /\ UNCHANGED <<contexts, sort_build, vcall>>

\* somebody deletes one of the persisted blobs
DeleteEmdFile ==
    /\ emd_file # Absent
    /\ emd_file' = Absent
    /\ ccall' = [op |-> "delete sparse_embedding.bin"]
    /\ UNCHANGED <<vecVars, tfidfv_file, loadVars, esVars>>

DeleteTfidfvFile ==
    /\ tfidfv_file # Absent
    /\ tfidfv_file' = Absent
    /\ ccall' = [op |-> "delete tfidv.bin"]
    /\ UNCHANGED <<vecVars, emd_file, loadVars, esVars>>

CacheNext == Construct \/ GetSparseEmbedding \/ DeleteEmdFile \/ DeleteTfidfvFile

SpecCache == CacheInit /\ [][CacheNext]_vars

\* C10: get_sparse_embedding, from every state of the two artifacts, ends
\* with p_embedding set and both artifacts on disk; it rebuilds from the
\* current corpus (and rewrites both artifacts) whenever at least one was
\* missing, and when both were present it loads them as they are, without
\* rebuilding, whatever the current corpus is.
C10_CacheRebuildOrLoad ==
    ccall.op = "get_sparse_embedding" =>
        /\ p_embedding # None
        /\ emd_file # Absent
        /\ tfidfv_file # Absent
        /\ IF ccall.before.emd # Absent /\ ccall.before.tfidfv # Absent
           THEN /\ ccall.out = "Embedding pickle load."
                /\ emd_file = ccall.before.emd
                /\ tfidfv_file = ccall.before.tfidfv
                /\ p_embedding = Unpickle(ccall.before.emd)
                /\ tfidfv = Unpickle(ccall.before.tfidfv)
           ELSE /\ ccall.out = "Embedding pickle saved."
                /\ p_embedding = FitTransform(contexts)
                /\ tfidfv = Fit(contexts)
                /\ emd_file = Pickle(FitTransform(contexts))
                /\ tfidfv_file = Pickle(Fit(contexts))

\* C10 witness: both artifacts were present and were loaded although they
\* were built from another corpus than the current one.
C10_Witness ==
    /\ ccall.op = "get_sparse_embedding"
    /\ ccall.out = "Embedding pickle load."
    /\ p_embedding # FitTransform(contexts)

(***************************************************************************)
(* Properties of the corpus loader.                                        *)
(***************************************************************************)
\* the texts of a corpus returned by load_json
CorpusTexts(corpus) == [i \in 1..Len(corpus) |-> corpus[i].document_text]

\* the normalized texts of the source, each once, in first-seen order
DistinctNormalized(raw) ==
    DictFromKeys([i \in 1..Len(raw) |-> preprocess(raw[i])])

\* C7: the corpus load_json produces contains each distinct normalized
\* text of the source exactly once, in order of first appearance, also when
\* two different raw texts normalize to the same text.
C7_DedupInvariant ==
    lcall.op = "load_json" =>
        CorpusTexts(lcall.out) = DistinctNormalized(wiki)

(***************************************************************************)
(* Properties of the remote-index strategy.                                *)
(***************************************************************************)
\* C5: the outputs of ElasticRetrieval.get_relevant_doc_bulk are aligned
\* with the queries: each of the three has one entry per query, and entry i
\* holds the scores, the document ids and the hits that get_relevant_doc
\* returns for query i alone.
C5_BulkOrderAligned ==
    ecall.op = "get_relevant_doc_bulk" =>
        /\ Len(ecall.out.doc_scores) = Len(ecall.queries)
        /\ Len(ecall.out.doc_indices) = Len(ecall.queries)
        /\ Len(ecall.out.total_docs) = Len(ecall.queries)
        /\ \A i \in 1..Len(ecall.queries) :
              LET single == ElasticGetRelevantDoc(es_docs, ecall.queries[i], ecall.k)
              IN  /\ ecall.out.doc_scores[i] = single.doc_score
                  /\ ecall.out.doc_indices[i] = single.doc_index
                  /\ ecall.out.total_docs[i] = single.docs

\* C6: ElasticRetrieval.retrieve of a single string query never raises and
\* returns as many results as the store returned hits, none when there is
\* no hit.
C6_FewHitsNoError ==
    ecall.op = "retrieve" =>
        /\ ecall.out.status = "ok"
        /\ Len(ecall.out.doc_indices) = Len(es_search(es_docs, ecall.query, ecall.k))
        /\ Len(ecall.out.doc_scores) = Len(es_search(es_docs, ecall.query, ecall.k))

(***************************************************************************)
(* Properties of the bulk loaders and of the ids they assign.              *)
(***************************************************************************)
\* C8: insert_data and insert_data_st call es.index for every document of
\* the corpus, in order, once each, do not propagate an insert error, and
\* afterwards every document whose insert succeeded is stored under the id
\* it was assigned.
C8_PartialFailureTolerant ==
    ecall.op \in {"insert_data", "insert_data_st"} =>
        /\ ecall.out = "ok"
        /\ Len(ecall.log) = Len(ecall.corpus)
        /\ \A n \in 1..Len(ecall.log) : ecall.log[n].i = n - 1
        /\ \A n \in 1..Len(ecall.log) :
              ecall.log[n].ok =>
                  \E j \in 1..Len(es_docs) :
                      es_docs[j] = [_id |-> ecall.log[n].id,
                                    _source |-> ecall.corpus[n]]

\* C9: after any sequence of user_setting(type="first"),
\* user_setting(type="second") and delete_doc, a user_setting(type="second")
\* call whose inserts all succeed stores every document of its batch under
\* an id no document of the index held before the call, so the document
\* count grows by the batch size.
C9_SecondIdsFresh ==
    (/\ ecall.op = "user_setting second"
     /\ ecall.out = "ok"
     /\ \A n \in 1..Len(ecall.log) : ecall.log[n].ok) =>
        /\ \A n \in 1..Len(ecall.log) : ecall.log[n].id \notin ecall.before_ids
        /\ count_doc(es_docs) = ecall.before_count + Len(ecall.log)

(***************************************************************************)
(* Index (re)creation.                                                     *)
(***************************************************************************)
\* C11: delete_index on an index that does not exist returns without an
\* error and leaves the store as it was; initial_index, whatever the index
\* was before (absent, or present with any documents), returns without an
\* error having run delete_index and then create_index, and leaves the
\* index existing with zero documents.
C11_IndexRecreation ==
    /\ (ecall.op = "delete_index" /\ ~ecall.before.exists) =>
          /\ ecall.status = "ok"
          /\ Store(es_exists, es_docs) = ecall.before
    /\ ecall.op = "initial_index" =>
          /\ ecall.status = "ok"
          /\ ecall.steps = <<"delete_index", "create_index">>
          /\ es_exists
          /\ count_doc(es_docs) = 0

\* initial_index has just run on an index that held documents
C11_Witness ==
    /\ ecall.op = "initial_index"
    /\ ecall.before.exists
    /\ count_doc(ecall.before.docs) > 0
    /\ es_exists
    /\ es_docs = <<>>

(***************************************************************************)
(* Result shaping of retrieve and retrieve_split on a Dataset.             *)
(***************************************************************************)
\* the keys and values a record of retrieve must have beside context_id:
\* the example's question and id, the context, and original_context and
\* answers exactly when the example has both context and answers
ShapedLike(rec, example, context) ==
    /\ rec.question = example.question
    /\ rec.id = example.id
    /\ rec.context = context
    /\ IF {"context", "answers"} \subseteq DOMAIN example
       THEN /\ DOMAIN rec = {"question", "id", "context_id", "context",
                             "original_context", "answers"}
            /\ rec.original_context = example.context
            /\ rec.answers = example.answers
       ELSE DOMAIN rec = {"question", "id", "context_id", "context"}

\* Python's == on two values that may differ in type (a str against a
\* list of str): both empty, or both non-empty and written alike
SameValue(a, b) ==
    IF Len(a) = 0 \/ Len(b) = 0 THEN Len(a) = Len(b)
    ELSE ToString(a) = ToString(b)

\* the hits of one question of the last dataset call on the index
HitsOf(question) == es_search(es_docs, question, ecall.k)

HitIds(hits) == [j \in 1..Len(hits) |-> hits[j]._id]

HitTexts(hits) == [j \in 1..Len(hits) |-> hits[j]._source.document_text]

\* C12: when retrieve returns for a dataset of n queries, in the vector and
\* in the remote strategy, it returns n records in query order; record i
\* has query i's question and id, as context_id the ids of the documents
\* retrieved for query i, as context their texts in rank order joined by
\* one space, and original_context and answers exactly when the example
\* has both fields.
C12_ResultShaping ==
    /\ (vcall.op = "retrieve" /\ vcall.out.status = "ok") =>
          /\ Len(vcall.out.cqas) = Len(vcall.dataset)
          /\ \A n \in 1..Len(vcall.dataset) :
                LET rec == vcall.out.cqas[n]
                    ids == TopK(ScoreRow(vcall.dataset[n].question),
                                vcall.k, sort_build).indices
                IN  /\ rec.context_id = ids
                    /\ ShapedLike(rec, vcall.dataset[n],
                                  Join(<<" ">>, [j \in 1..Len(ids) |->
                                                    contexts[ids[j] + 1]]))
    /\ (ecall.op = "retrieve dataset" /\ ecall.out.status = "ok") =>
          /\ Len(ecall.out.cqas) = Len(ecall.dataset)
          /\ \A n \in 1..Len(ecall.dataset) :
                LET rec == ecall.out.cqas[n]
                    hits == HitsOf(ecall.dataset[n].question)
                IN  /\ SameValue(rec.context_id, HitIds(hits))
                    /\ ShapedLike(rec, ecall.dataset[n],
                                  Join(<<" ">>, HitTexts(hits)))

RECURSIVE HitsOfQueries(_, _)
\* one entry per hit of each of the first n queries of the dataset, the
\* queries in dataset order and each query's hits in rank order
HitsOfQueries(dataset, n) ==
    IF n = 0 THEN <<>>
    ELSE LET hits == HitsOf(dataset[n].question)
         IN  HitsOfQueries(dataset, n - 1)
                \o [j \in 1..Len(hits) |->
                       [question |-> dataset[n].question, hit |-> hits[j]]]

\* C13: retrieve_split of a dataset of n queries returns one record per
\* retrieved hit of every one of the n queries, min(topk, hits of the
\* query) records per query, each with that query's question and the id
\* and the text of that hit.
C13_SplitOneRecordPerHit ==
    ecall.op = "retrieve_split" =>
        LET expected == HitsOfQueries(ecall.dataset, Len(ecall.dataset))
            cqas == ecall.out.cqas
        IN  /\ ecall.out.status = "ok"
            /\ Len(cqas) = Len(expected)
            /\ \A r \in 1..Len(expected) :
                  /\ cqas[r].question = expected[r].question
                  /\ cqas[r].context_id = expected[r].hit._id
                  /\ cqas[r].context = expected[r].hit._source.document_text

=============================================================================
